---- MODULE Spec2Model ----
(***************************************************************************)
(* Model of the two modules of the SaaS deployment framework:              *)
(*   api_handler.py     class APIHandler    (Stripe, AWS, Google Analytics)*)
(*   data_collector.py  class DataCollector (usage aggregation)            *)
(*                                                                         *)
(* Every method is an operator that maps the outcome of the vendor calls   *)
(* it makes to a completion: how it ended (returned / raised), the value   *)
(* or the exception class, and the log records it wrote.  The vendor       *)
(* libraries (stripe, boto3, requests, pandas, the analytics client) are   *)
(* the environment; what they answer is chosen with \E from small sets.    *)
(* DataCollector is modelled from the point where self.api_handler holds   *)
(* an APIHandler.                                                          *)
(***************************************************************************)
EXTENDS Integers, Sequences, FiniteSets, TLC

VARIABLES pc, op, args, down, locals, calls, resolved, log, outcome

vars == <<pc, op, args, down, locals, calls, resolved, log, outcome>>

(***************************************************************************)
(* Bounds of the input spaces                                               *)
(***************************************************************************)
MaxRows == 2
MaxCols == 2
MaxBuckets == 2

(***************************************************************************)
(* Python values and completions                                           *)
(***************************************************************************)
NoExc == "<no exception>"
PyNone == [tag |-> "None"]
Absent == [tag |-> "<no value>"]
MissingCell == "<missing>"

Entry(level, msg, arg, at) == [level |-> level, msg |-> msg, arg |-> arg, at |-> at]

Returned(value, entries) == [status |-> "returned", exc |-> NoExc, value |-> value, log |-> entries]

Raised(exc, entries) == [status |-> "raised", exc |-> exc, value |-> Absent, log |-> entries]

NotCalled == [status |-> "none", exc |-> NoExc, value |-> Absent]

Range(s) == {s[i] : i \in DOMAIN s}

SeqsUpTo(S, n) == UNION {[1..k -> S] : k \in 0..n}

(***************************************************************************)
(* Exception classes: the base class of each class that can occur          *)
(***************************************************************************)
BaseClass ==
  [c \in {"StripeError", "Boto3Error", "ClientError", "BotoCoreError", "GoogleAPIError",
          "RequestException", "NameError", "ValueError", "LookupError", "Exception",
          "SignatureVerificationError", "EndpointConnectionError", "HTTPError",
          "ConnectionError", "KeyError"} |->
     CASE c = "SignatureVerificationError" -> "StripeError"
       [] c = "EndpointConnectionError" -> "BotoCoreError"
       [] c \in {"HTTPError", "ConnectionError"} -> "RequestException"
       [] c = "KeyError" -> "LookupError"
       [] OTHER -> "Exception"]

RECURSIVE IsInstance(_, _)
IsInstance(exc, cls) ==
  IF exc = cls THEN TRUE
  ELSE IF exc = "Exception" THEN FALSE
  ELSE IsInstance(BaseClass[exc], cls)

(***************************************************************************)
(* api_handler.py                                                          *)
(***************************************************************************)
\* names bound in the module namespace by the import statements and definitions
api_handler_globals == {"Dict", "Any", "logging", "stripe", "boto3", "data_v4", "logger", "APIHandler"}

stripe_key == "STRIPE_API_KEY"

\* --- stripe.Webhook: bodies, signatures, verification --------------------
EventTypes == {"payment_succeeded", "charge.refunded"}
EventIds == {"evt_1", "evt_2"}
Bodies == [json : BOOLEAN, type : EventTypes, id : EventIds]
Secrets == {stripe_key, "whsec_other"}

\* the signature the sender computes over a body with a secret (an ideal MAC)
Sign(body, secret) == <<body, secret>>
Sigs == {Sign(b, k) : b \in Bodies, k \in Secrets}

Payloads == [hasKeys : BOOLEAN, payload : Bodies, sig : Sigs]

\* stripe.Webhook.construct_event: verifies the header, parses the body.
\* parseFirst: library versions that parse the body before verifying.
construct_event(body, sig, secret, parseFirst) ==
  LET bad_sig == sig # Sign(body, secret)
      bad_json == ~body.json
  IN  IF bad_sig /\ bad_json
        THEN [exc |-> IF parseFirst THEN "ValueError" ELSE "SignatureVerificationError",
              event |-> Absent]
      ELSE IF bad_sig THEN [exc |-> "SignatureVerificationError", event |-> Absent]
      ELSE IF bad_json THEN [exc |-> "ValueError", event |-> Absent]
      ELSE [exc |-> NoExc, event |-> [tag |-> "Event", type |-> body.type, id |-> body.id]]

\* what the try body of process_stripe_webhook raises before or in the vendor call
stripe_webhook_try(payload, parseFirst) ==
  IF ~payload.hasKeys THEN [exc |-> "KeyError", event |-> Absent]
  ELSE construct_event(payload.payload, payload.sig, stripe_key, parseFirst)

\* variant: the except clauses re-raise without writing a log record
stripe_webhook_except_silent(exc) == Raised(exc, <<>>)

\* the two except clauses of process_stripe_webhook
stripe_webhook_except(exc) ==
  IF IsInstance(exc, "StripeError")
    THEN Raised(exc, <<Entry("ERROR", "Stripe error", exc, "process_stripe_webhook")>>)
  ELSE IF IsInstance(exc, "Exception")
    THEN Raised(exc, <<Entry("ERROR", "Unexpected error processing Stripe webhook", exc,
                             "process_stripe_webhook")>>)
  ELSE Raised(exc, <<>>)

\* variant: the INFO record is written for every event type
stripe_webhook_event_any(event) ==
  Returned(PyNone, <<Entry("INFO", "Payment succeeded", event.id, "process_stripe_webhook")>>)

\* the handling of a verified event
stripe_webhook_event(event) ==
  IF event.type = "payment_succeeded"
    THEN Returned(PyNone, <<Entry("INFO", "Payment succeeded", event.id, "process_stripe_webhook")>>)
    ELSE Returned(PyNone, <<>>)

\* variant: a Stripe error is logged and the handler returns instead of re-raising
process_stripe_webhook_swallow(payload, parseFirst) ==
  LET r == stripe_webhook_try(payload, parseFirst)
  IN  IF r.exc = NoExc THEN stripe_webhook_event(r.event)
      ELSE IF IsInstance(r.exc, "StripeError")
        THEN Returned(PyNone, <<Entry("ERROR", "Stripe error", r.exc, "process_stripe_webhook")>>)
      ELSE stripe_webhook_except(r.exc)

process_stripe_webhook(payload, parseFirst) ==
  LET r == stripe_webhook_try(payload, parseFirst)
  IN  IF r.exc = NoExc THEN stripe_webhook_event(r.event)
      ELSE stripe_webhook_except(r.exc)

\* --- boto3 S3 client ----------------------------------------------------
BucketNames == {"bucket-a", "bucket-b"}
AwsFailures == {"InvalidCredentials", "Transport", "Boto3Error"}
AwsModes == {"ok"} \cup AwsFailures
Regions == {"us-east-1"}

\* s3_client.list_buckets(): botocore raises ClientError when the service
\* rejects the credentials and EndpointConnectionError when it is unreachable
list_buckets(env) ==
  CASE env.mode = "ok" ->
         [exc |-> NoExc,
          response |-> [Buckets |-> [i \in DOMAIN env.buckets |-> [Name |-> env.buckets[i]]]]]
    [] env.mode = "InvalidCredentials" -> [exc |-> "ClientError", response |-> Absent]
    [] env.mode = "Transport" -> [exc |-> "EndpointConnectionError", response |-> Absent]
    [] OTHER -> [exc |-> "Boto3Error", response |-> Absent]

\* the except clause of get_aws_usage
aws_usage_except(exc) ==
  IF IsInstance(exc, "Boto3Error")
    THEN Raised(exc, <<Entry("ERROR", "AWS Error", exc, "get_aws_usage")>>)
    ELSE Raised(exc, <<>>)

get_aws_usage(env) ==
  LET r == list_buckets(env)
  IN  IF r.exc = NoExc
        THEN Returned([tag |-> "dict",
                       buckets |-> [i \in DOMAIN r.response.Buckets |-> r.response.Buckets[i].Name],
                       region |-> env.region], <<>>)
        ELSE aws_usage_except(r.exc)

\* --- analytics client ---------------------------------------------------
ColumnNames == {"date", "activeUsers"}
Cells == {"2023-01-01", "10"}
GaModes == {"ok", "GoogleAPIError"}

\* ganalytics.query_report(...).to_dict()
query_report(env) ==
  IF env.mode = "ok"
    THEN [exc |-> NoExc, response |-> [columnHeaders |-> env.columnHeaders, rows |-> env.rows]]
    ELSE [exc |-> "GoogleAPIError", response |-> Absent]

\* the except clause of get_google_analytics_data: the class expression
\* google.api_core.exceptions.GoogleAPIError is evaluated when an exception
\* arrives, and the name google is looked up in the module namespace
ga_data_except(exc) ==
  IF "google" \notin api_handler_globals THEN Raised("NameError", <<>>)
  ELSE IF IsInstance(exc, "GoogleAPIError")
    THEN Raised(exc, <<Entry("ERROR", "Google Analytics Error", exc, "get_google_analytics_data")>>)
  ELSE Raised(exc, <<>>)

get_google_analytics_data(env) ==
  LET r == query_report(env)
  IN  IF r.exc = NoExc
        THEN Returned([tag |-> "dict", columnHeaders |-> r.response.columnHeaders,
                       rows |-> r.response.rows], <<>>)
        ELSE ga_data_except(r.exc)

(***************************************************************************)
(* data_collector.py                                                       *)
(***************************************************************************)
\* --- requests: GET https://api.stripe.com/v1/payouts --------------------
StripeFailures == {"ConnectionError", "HTTPError"}
StripeModes == {"ok"} \cup StripeFailures
PayoutLists == {"payouts-page"}

\* requests.get(...), response.raise_for_status(), response.json()
requests_get_payouts(env) ==
  CASE env.mode = "ok" -> [exc |-> NoExc, json |-> [tag |-> "dict", data |-> env.payouts]]
    [] env.mode = "ConnectionError" -> [exc |-> "ConnectionError", json |-> Absent]
    [] OTHER -> [exc |-> "HTTPError", json |-> Absent]

\* variant: a request failure is logged and an empty payload is returned
fetch_stripe_except_swallow(exc) ==
  Returned([tag |-> "dict", data |-> "<empty>"],
           <<Entry("ERROR", "Stripe API request failed", exc, "_fetch_stripe_data")>>)

\* the except clause of _fetch_stripe_data
fetch_stripe_except(exc) ==
  IF IsInstance(exc, "RequestException")
    THEN Raised(exc, <<Entry("ERROR", "Stripe API request failed", exc, "_fetch_stripe_data")>>)
    ELSE Raised(exc, <<>>)

fetch_stripe_data(env) ==
  LET r == requests_get_payouts(env)
  IN  IF r.exc = NoExc THEN Returned(r.json, <<>>) ELSE fetch_stripe_except(r.exc)

\* --- pandas -------------------------------------------------------------
RECURSIVE MaxLen(_)
MaxLen(rows) ==
  IF Len(rows) = 0 THEN 0
  ELSE LET m == MaxLen(Tail(rows))
       IN  IF Len(Head(rows)) > m THEN Len(Head(rows)) ELSE m

\* pd.DataFrame(rows, columns=columns) for a list of lists: the data gets as
\* many columns as the longest row has, shorter rows are filled with missing
\* values, and the number of column labels must equal the number of columns
DataFrame(rows, columns) ==
  IF Len(rows) = 0 THEN [exc |-> NoExc, columns |-> columns, data |-> <<>>]
  ELSE IF Len(columns) # MaxLen(rows) THEN [exc |-> "ValueError", columns |-> <<>>, data |-> <<>>]
  ELSE [exc |-> NoExc, columns |-> columns,
        data |-> [i \in 1..Len(rows) |->
                    [j \in 1..Len(columns) |->
                       IF j <= Len(rows[i]) THEN rows[i][j] ELSE MissingCell]]]

LastIndex(columns, c) == CHOOSE j \in DOMAIN columns :
                           /\ columns[j] = c
                           /\ \A k \in DOMAIN columns : columns[k] = c => k <= j

\* variant: the records come out in reverse row order
to_dict_records_reversed(df) ==
  IF Len(df.columns) = 0 THEN <<>>
  ELSE [i \in 1..Len(df.data) |->
          [c \in Range(df.columns) |->
             df.data[Len(df.data) + 1 - i][LastIndex(df.columns, c)]]]

\* df.to_dict('records'): one dict(zip(columns, row)) per tuple of
\* df.itertuples(index=False, name=None), which zips the column arrays
to_dict_records(df) ==
  IF Len(df.columns) = 0 THEN <<>>
  ELSE [i \in 1..Len(df.data) |->
          [c \in Range(df.columns) |-> df.data[i][LastIndex(df.columns, c)]]]

\* the except clause of _fetch_google_analytics_data
fetch_ga_except(exc, before) ==
  IF IsInstance(exc, "Exception")
    THEN Raised(exc, before \o <<Entry("ERROR", "Failed to process Google Analytics data", exc,
                                       "_fetch_google_analytics_data")>>)
    ELSE Raised(exc, before)

fetch_google_analytics_data(env) ==
  LET r == get_google_analytics_data(env)
  IN  IF r.status = "raised" THEN fetch_ga_except(r.exc, r.log)
      ELSE LET df == DataFrame(r.value.rows, r.value.columnHeaders)
           IN  IF df.exc # NoExc THEN fetch_ga_except(df.exc, r.log)
               ELSE Returned([tag |-> "list", records |-> to_dict_records(df)],
                             r.log \o <<Entry("INFO", "Successfully processed rows of GA data",
                                              Len(df.data), "_fetch_google_analytics_data")>>)

\* variant: the failure is downgraded to a record instead of being re-raised
fetch_usage_except_downgrade(exc) ==
  Returned([tag |-> "dict", stripe |-> [tag |-> "Failure"], aws |-> [tag |-> "Failure"],
            ga |-> [tag |-> "Failure"]],
           <<Entry("ERROR", "Failed to fetch SaaS usage", exc, "fetch_saaS_usage")>>)

\* the except clause of fetch_saaS_usage
fetch_usage_except(exc) ==
  IF IsInstance(exc, "Exception")
    THEN Raised(exc, <<Entry("ERROR", "Failed to fetch SaaS usage", exc, "fetch_saaS_usage")>>)
    ELSE Raised(exc, <<>>)

\* the return statement of fetch_saaS_usage
fetch_usage_return(stripe_data, aws_data, ga_data) ==
  Returned([tag |-> "dict", stripe |-> stripe_data, aws |-> aws_data, ga |-> ga_data], <<>>)

(***************************************************************************)
(* Inputs                                                                  *)
(***************************************************************************)
Providers == {"payments", "storage", "analytics"}
CallOrder == <<"payments", "storage", "analytics">>

BucketLists == {s \in SeqsUpTo(BucketNames, MaxBuckets) : \A i, j \in DOMAIN s : s[i] = s[j] => i = j}
AwsEnvs(modes) == [mode : modes, buckets : BucketLists, region : Regions]

StripeEnvs(modes) == [mode : modes, payouts : PayoutLists]

Headers == SeqsUpTo(ColumnNames, MaxCols)
Rows == SeqsUpTo(SeqsUpTo(Cells, MaxCols), MaxRows)
GaEnvs(modes) ==
  {[mode |-> "ok", columnHeaders |-> h, rows |-> r] : h \in IF "ok" \in modes THEN Headers ELSE {}, r \in Rows}
  \cup {[mode |-> m, columnHeaders |-> <<>>, rows |-> <<>>] : m \in modes \ {"ok"}}

NoArgs == [tag |-> "<no call>"]
NoLocals == [stripe_data |-> Absent, aws_data |-> Absent, ga_data |-> Absent, exc |-> NoExc]

(***************************************************************************)
(* The caller: one invocation at a time                                    *)
(***************************************************************************)
Init ==
  /\ pc = "idle"
  /\ op = "none"
  /\ args = NoArgs
  /\ down = {}
  /\ locals = NoLocals
  /\ calls = <<>>
  /\ resolved = <<>>
  /\ log = <<>>
  /\ outcome = NotCalled

\* a whole call of one method: its completion and its log records
Complete(name, a, r) ==
  /\ pc' = "done"
  /\ op' = name
  /\ args' = a
  /\ log' = r.log
  /\ outcome' = [status |-> r.status, exc |-> r.exc, value |-> r.value]
  /\ UNCHANGED <<down, locals, calls, resolved>>

CallWebhook ==
  /\ pc = "idle"
  /\ \E p \in Payloads, parseFirst \in BOOLEAN :
    Complete("process_stripe_webhook", [payload |-> p, parseFirst |-> parseFirst],
             process_stripe_webhook(p, parseFirst))

CallAwsUsage ==
  /\ pc = "idle"
  /\ \E env \in AwsEnvs(AwsModes) : Complete("get_aws_usage", env, get_aws_usage(env))

CallGaData ==
  /\ pc = "idle"
  /\ \E env \in GaEnvs(GaModes) :
    Complete("get_google_analytics_data", env, get_google_analytics_data(env))

CallFetchGa ==
  /\ pc = "idle"
  /\ \E env \in GaEnvs(GaModes) :
    Complete("_fetch_google_analytics_data", env, fetch_google_analytics_data(env))

\* fetch_saaS_usage is entered; down is the set of providers that will fail
\* when they are asked
CallFetchUsage ==
  /\ pc = "idle"
  /\ pc' = "stripe"
  /\ op' = "fetch_saaS_usage"
  /\ \E d \in SUBSET Providers : down' = d
  /\ UNCHANGED <<args, locals, calls, resolved, log, outcome>>

\* a provider request leaves the process
Request(at, provider, wait) ==
  /\ pc = at
  /\ pc' = wait
  /\ calls' = Append(calls, provider)
  /\ UNCHANGED <<op, args, down, locals, resolved, log, outcome>>

\* the sub-call for a provider completes with r on the provider's answer env:
\* its value is bound to the local variable and control moves on, or control
\* enters the except clause; args keeps the answer last received
Resolve(provider, env, r, bound, next) ==
  /\ args' = env
  /\ resolved' = Append(resolved, provider)
  /\ log' = log \o r.log
  /\ IF r.status = "returned"
       THEN /\ locals' = bound
            /\ pc' = next
       ELSE /\ locals' = [locals EXCEPT !.exc = r.exc]
            /\ pc' = "except"
  /\ UNCHANGED <<op, down, calls, outcome>>

ModesOf(provider, failures) == IF provider \in down THEN failures ELSE {"ok"}

StripeRequest == Request("stripe", "payments", "stripe_wait")

StripeResolve ==
  /\ pc = "stripe_wait"
  /\ \E env \in StripeEnvs(ModesOf("payments", StripeFailures)) :
    LET r == fetch_stripe_data(env)
    IN  Resolve("payments", env, r, [locals EXCEPT !.stripe_data = r.value], "aws")

\* variant: the storage request is sent while the payments request is pending
AwsRequest_early == Request("stripe_wait", "storage", "aws_wait")

AwsRequest == Request("aws", "storage", "aws_wait")

AwsResolve ==
  /\ pc = "aws_wait"
  /\ \E env \in AwsEnvs(ModesOf("storage", AwsFailures)) :
    LET r == get_aws_usage(env)
    IN  Resolve("storage", env, r, [locals EXCEPT !.aws_data = r.value], "ga")

GaRequest == Request("ga", "analytics", "ga_wait")

GaResolve ==
  /\ pc = "ga_wait"
  /\ \E env \in GaEnvs(ModesOf("analytics", {"GoogleAPIError"})) :
    LET r == fetch_google_analytics_data(env)
    IN  Resolve("analytics", env, r, [locals EXCEPT !.ga_data = r.value], "return")

Finish(at, r) ==
  /\ pc = at
  /\ pc' = "done"
  /\ log' = log \o r.log
  /\ outcome' = [status |-> r.status, exc |-> r.exc, value |-> r.value]
  /\ UNCHANGED <<op, args, down, locals, calls, resolved>>

FetchReturn == Finish("return", fetch_usage_return(locals.stripe_data, locals.aws_data, locals.ga_data))

FetchExcept == Finish("except", fetch_usage_except(locals.exc))

\* the caller has taken the result; nothing outlives the call
Reset ==
  /\ pc = "done"
  /\ pc' = "idle"
  /\ op' = "none"
  /\ args' = NoArgs
  /\ down' = {}
  /\ locals' = NoLocals
  /\ calls' = <<>>
  /\ resolved' = <<>>
  /\ log' = <<>>
  /\ outcome' = NotCalled

Next ==
  \/ CallWebhook
  \/ CallAwsUsage
  \/ CallGaData
  \/ CallFetchGa
  \/ CallFetchUsage
  \/ StripeRequest
  \/ StripeResolve
  \/ AwsRequest
  \/ AwsResolve
  \/ GaRequest
  \/ GaResolve
  \/ FetchReturn
  \/ FetchExcept
  \/ Reset

Spec == Init /\ [][Next]_vars

(***************************************************************************)
(* Properties                                                              *)
(***************************************************************************)
Done(name) == pc = "done" /\ op = name

Slots == {"stripe", "aws", "ga"}

Last(s) == s[Len(s)]

IsPrefix(s, t) == Len(s) <= Len(t) /\ \A i \in 1..Len(s) : s[i] = t[i]

Distinct(s) == \A i, j \in DOMAIN s : s[i] = s[j] => i = j

\* what the vendor did with the webhook of the current call
Verification == stripe_webhook_try(args.payload, args.parseFirst)

\* the exception the vendor call of the current client operation raised
VendorExc ==
  CASE op = "process_stripe_webhook" ->
         IF args.payload.hasKeys THEN Verification.exc ELSE NoExc
    [] op = "get_aws_usage" -> list_buckets(args).exc
    [] op = "get_google_analytics_data" -> query_report(args).exc
    [] OTHER -> NoExc

\* the analytics answer is columnar with every row as long as the header list
Rectangular == args.mode = "ok" /\ \A i \in DOMAIN args.rows : Len(args.rows[i]) = Len(args.columnHeaders)

\* record i maps every column name to the cell of row i at the column's position
RowRecords ==
  /\ outcome.status = "returned"
  /\ Len(outcome.value.records) = Len(args.rows)
  /\ \A i \in DOMAIN args.rows : \A j \in DOMAIN args.columnHeaders :
       outcome.value.records[i][args.columnHeaders[j]] = args.rows[i][j]

C4_TamperedSignatureFails ==
  (Done("process_stripe_webhook") /\ VendorExc = "SignatureVerificationError") =>
    /\ outcome.status = "raised"
    /\ outcome.exc = "SignatureVerificationError"
    /\ outcome.value = Absent
    /\ log = <<Entry("ERROR", "Stripe error", "SignatureVerificationError",
                     "process_stripe_webhook")>>

C4_Witness ==
  /\ Done("process_stripe_webhook")
  /\ args.payload.hasKeys
  /\ args.payload.payload.json
  /\ args.payload.sig = Sign(args.payload.payload, "whsec_other")
  /\ outcome.status = "raised"

\* C5 as stated: for every columnar response whose rows are all as long as the
\* header list, the analytics sub-step returns one record per row, in row
\* order, each mapping every column name to the row's cell at that position.
C5_Reshape == (Done("_fetch_google_analytics_data") /\ Rectangular) => RowRecords

\* C5 amended: the same, for responses with at least one column header and no
\* column name repeated.
C5_ReshapeDistinctHeaders ==
  (/\ Done("_fetch_google_analytics_data")
   /\ Rectangular
   /\ Len(args.columnHeaders) >= 1
   /\ Distinct(args.columnHeaders)) => RowRecords

C5_Witness ==
  /\ Done("_fetch_google_analytics_data")
  /\ args.mode = "ok"
  /\ args.columnHeaders = <<"date", "activeUsers">>
  /\ args.rows = << <<"2023-01-01", "10">>, <<"10", "2023-01-01">> >>
  /\ outcome.status = "returned"
  /\ outcome.value.records[2] = [c \in ColumnNames |-> IF c = "date" THEN "10" ELSE "2023-01-01"]

\* C6 as stated: for every columnar response in which some row's length
\* differs from the header length, the reshaping fails (MalformedResponse)
\* and returns no records.
C6_MismatchFails ==
  (/\ Done("_fetch_google_analytics_data")
   /\ args.mode = "ok"
   /\ \E i \in DOMAIN args.rows : Len(args.rows[i]) # Len(args.columnHeaders)) =>
    /\ outcome.status = "raised"
    /\ outcome.exc = "ValueError"
    /\ outcome.value = Absent

\* C7 as stated: when the storage provider rejects the credentials or cannot
\* be reached, get_aws_usage ends with that error delivered to its caller
\* after an ERROR record was written in get_aws_usage.
C7_AwsFailureLogged ==
  (Done("get_aws_usage") /\ args.mode \in {"InvalidCredentials", "Transport"}) =>
    /\ outcome.status = "raised"
    /\ \E i \in DOMAIN log : log[i].level = "ERROR" /\ log[i].at = "get_aws_usage"

\* C8 as stated: in each of the three client operations every error the
\* vendor call raises is caught there, written to the log exactly once there,
\* and then raised to the caller.
C8_CaughtLoggedReraised ==
  (/\ pc = "done"
   /\ op \in {"process_stripe_webhook", "get_aws_usage", "get_google_analytics_data"}
   /\ VendorExc # NoExc) =>
    /\ outcome.status = "raised"
    /\ outcome.exc = VendorExc
    /\ Len(log) = 1
    /\ log[1].level = "ERROR"
    /\ log[1].at = op

\* C9 as stated: every call of the webhook handler writes a log record for its
\* outcome.
C9_AlwaysLogs == Done("process_stripe_webhook") => Len(log) >= 1

\* C9 amended: a call of the webhook handler writes exactly one log record,
\* INFO for a verified payment-succeeded event and ERROR for a failure, and
\* writes none for a verified event of any other type.
C9_LogsExceptOtherTypes ==
  Done("process_stripe_webhook") =>
    IF Verification.exc # NoExc
      THEN Len(log) = 1 /\ log[1].level = "ERROR" /\ outcome.status = "raised"
    ELSE IF Verification.event.type = "payment_succeeded"
      THEN Len(log) = 1 /\ log[1].level = "INFO"
    ELSE Len(log) = 0

C9_Witness ==
  /\ Done("process_stripe_webhook")
  /\ Verification.exc = "ValueError"
  /\ Len(log) = 1
  /\ log[1].msg = "Unexpected error processing Stripe webhook"

\* C10: in the aggregate fetch every provider is asked at most once, in the
\* order payments, storage, analytics, and a provider is asked only when every
\* request before it has resolved.
C10_SequentialOnce ==
  op = "fetch_saaS_usage" =>
    /\ IsPrefix(calls, CallOrder)
    /\ IsPrefix(resolved, calls)
    /\ Len(calls) <= Len(resolved) + 1
    /\ (pc \in {"stripe", "aws", "ga", "return", "except", "done"} => resolved = calls)

C10_Witness ==
  /\ Done("fetch_saaS_usage")
  /\ calls = CallOrder
  /\ resolved = CallOrder
  /\ outcome.status = "returned"

====
